---- MODULE Spec2Model ----
(***************************************************************************)
(* The single-element accessor of the accessor crate (src/src/single.rs):  *)
(* Generic<T, M, A>, its constructors new / try_new, the capability-gated  *)
(* read_volatile / write_volatile / update_volatile, the comparison impls  *)
(* and Drop.  T is a type of SizeOfT bytes with alignment AlignOfT whose   *)
(* values are the integers modulo ValMod.  Physical memory holds one T at  *)
(* every aligned physical base.  The Mapper is the environment: map may    *)
(* return any non-zero virtual address that keeps the live mappings        *)
(* stable.                                                                 *)
(***************************************************************************)
EXTENDS Integers, Sequences, FiniteSets, TLC

VARIABLES acc, mem, nmap, nunmap, last, prev

vars == <<acc, mem, nmap, nunmap, last, prev>>

\* ---------------------------------------------------------------- bounds
PhysSize == 4
MaxVirt == 3
ValMod == 3
MaxMaps == 3

\* ------------------------------------------------------- type parameters
SizeOfT == 2
AlignOfT == 2

\* The accessor variables of the calling program.
Accs == {"a1", "a2"}

Markers == {"ReadWrite", "ReadOnly", "WriteOnly"}
Readable == {"ReadWrite", "ReadOnly"}
Writable == {"ReadWrite", "WriteOnly"}

Values == 0 .. (ValMod - 1)
PhysBases == 0 .. (PhysSize - SizeOfT)
AlignedBases == {p \in PhysBases : p % AlignOfT = 0}
VirtAddrs == 1 .. MaxVirt

\* The mutation closures handed to update_volatile (wrapping arithmetic on T).
Fns == {"inc", "dbl", "zero"}
Apply(f, v) ==
    CASE f = "inc" -> (v + 1) % ValMod
      [] f = "dbl" -> (v * 2) % ValMod
      [] f = "zero" -> 0

\* ------------------------------------------------------------ the mapper
NoMapper == [phys |-> 0, bytes |-> 0, virt |-> 0]
NoAcc == [live |-> FALSE, virt |-> 0, marker |-> "none", mapper |-> NoMapper]

MapCall(phys, bytes, ret) == [fn |-> "map", addr |-> phys, bytes |-> bytes, ret |-> ret]
UnmapCall(addr, bytes) == [fn |-> "unmap", addr |-> addr, bytes |-> bytes, ret |-> 0]

Overlap(v1, v2) == v1 < v2 + SizeOfT /\ v2 < v1 + SizeOfT

\* The virtual addresses map(phys, bytes) may return: non-zero, and every
\* live mapping keeps translating as it did.
MapChoices(phys) ==
    {v \in VirtAddrs :
        \A b \in Accs :
            (acc[b].live /\ Overlap(v, acc[b].virt))
                => v - acc[b].virt = phys - acc[b].mapper.phys}

\* The physical address a virtual address of the accessor's mapping stands for.
Translate(self, va) == self.mapper.phys + (va - self.mapper.virt)

\* Physical memory, one T per aligned base.  An access that leaves the
\* modelled memory reads zero and stores nothing.
Load(m, p) == IF p \in DOMAIN m THEN m[p] ELSE 0
Store(m, p, v) == IF p \in DOMAIN m THEN [m EXCEPT ![p] = v] ELSE m

\* ----------------------------------------------------------- lib.rs helper
is_aligned(phys_base) == phys_base % AlignOfT = 0

\* Variants of new with one slip each: the arguments of map swapped, the
\* mapping made before the alignment assertion, the physical base stored in
\* place of the address map returned.
new_swapped_args(phys_base, marker, vret) ==
    IF ~is_aligned(phys_base)
    THEN [ret |-> "panic", self |-> NoAcc, calls |-> <<>>]
    ELSE LET bytes == SizeOfT
         IN [ret |-> "ok",
             self |-> [live |-> TRUE, virt |-> vret, marker |-> marker,
                       mapper |-> [phys |-> bytes, bytes |-> phys_base, virt |-> vret]],
             calls |-> <<MapCall(bytes, phys_base, vret)>>]

new_map_first(phys_base, marker, vret) ==
    LET bytes == SizeOfT
    IN IF ~is_aligned(phys_base)
       THEN [ret |-> "panic", self |-> NoAcc, calls |-> <<MapCall(phys_base, bytes, vret)>>]
       ELSE [ret |-> "ok",
             self |-> [live |-> TRUE, virt |-> vret, marker |-> marker,
                       mapper |-> [phys |-> phys_base, bytes |-> bytes, virt |-> vret]],
             calls |-> <<MapCall(phys_base, bytes, vret)>>]

new_stores_phys(phys_base, marker, vret) ==
    IF ~is_aligned(phys_base)
    THEN [ret |-> "panic", self |-> NoAcc, calls |-> <<>>]
    ELSE LET bytes == SizeOfT
         IN [ret |-> "ok",
             self |-> [live |-> TRUE, virt |-> phys_base, marker |-> marker,
                       mapper |-> [phys |-> phys_base, bytes |-> bytes, virt |-> vret]],
             calls |-> <<MapCall(phys_base, bytes, vret)>>]

\* ------------------------------------------------------------ Generic::new
new(phys_base, marker, vret) ==
    IF ~is_aligned(phys_base)
    THEN [ret |-> "panic", self |-> NoAcc, calls |-> <<>>]
    ELSE LET bytes == SizeOfT
             virt == vret
         IN [ret |-> "ok",
             self |-> [live |-> TRUE, virt |-> virt, marker |-> marker,
                       mapper |-> [phys |-> phys_base, bytes |-> bytes, virt |-> vret]],
             calls |-> <<MapCall(phys_base, bytes, vret)>>]

NoErr == [alignment |-> 0, address |-> 0]

\* A variant of try_new whose error carries its two fields swapped.
try_new_swapped(phys_base, marker, vret) ==
    IF is_aligned(phys_base)
    THEN LET r == new(phys_base, marker, vret)
         IN [ret |-> IF r.ret = "ok" THEN "Ok" ELSE r.ret, err |-> NoErr,
             self |-> r.self, calls |-> r.calls]
    ELSE [ret |-> "Err", err |-> [alignment |-> phys_base, address |-> AlignOfT],
          self |-> NoAcc, calls |-> <<>>]

try_new(phys_base, marker, vret) ==
    IF is_aligned(phys_base)
    THEN LET r == new(phys_base, marker, vret)
         IN [ret |-> IF r.ret = "ok" THEN "Ok" ELSE r.ret, err |-> NoErr,
             self |-> r.self, calls |-> r.calls]
    ELSE [ret |-> "Err", err |-> [alignment |-> AlignOfT, address |-> phys_base],
          self |-> NoAcc, calls |-> <<>>]

\* ------------------------------------------------------- volatile accesses
IoRead(va, v) == [kind |-> "read", addr |-> va, val |-> v]
IoWrite(va, v) == [kind |-> "write", addr |-> va, val |-> v]

\* What a volatile access through a pointer can do: at an aligned address it
\* is performed; at a misaligned one the behaviour is undefined, and the
\* build either performs it or aborts on the precondition check.
AccessOutcomes(va) == IF va % AlignOfT = 0 THEN {"ok"} ELSE {"ok", "panic"}

\* A variant of the bound on write_volatile: the method left in the
\* Readable impl block.
WriteGuard_readable(self) == self.marker \in Readable

ReadGuard(self) == self.marker \in Readable
WriteGuard(self) == self.marker \in Writable
UpdateGuard(self) == self.marker \in Readable /\ self.marker \in Writable

read_volatile(self, m) ==
    [val |-> Load(m, Translate(self, self.virt)),
     io |-> <<IoRead(self.virt, Load(m, Translate(self, self.virt)))>>]

\* A variant of write_volatile whose store never reaches memory.
write_volatile_elided(self, m, v) ==
    [self |-> self, mem |-> m, io |-> <<IoWrite(self.virt, v)>>]

write_volatile(self, m, v) ==
    [self |-> self,
     mem |-> Store(m, Translate(self, self.virt), v),
     io |-> <<IoWrite(self.virt, v)>>]

\* A variant of update_volatile that writes back the value it read,
\* applying f to a copy it then discards.
update_volatile_stale(self, m, f) ==
    LET r == read_volatile(self, m)
        w == write_volatile(self, m, r.val)
    IN [self |-> w.self, mem |-> w.mem, io |-> r.io \o w.io]

update_volatile(self, m, f) ==
    LET r == read_volatile(self, m)
        v == Apply(f, r.val)
        w == write_volatile(self, m, v)
    IN [self |-> w.self, mem |-> w.mem, io |-> r.io \o w.io]

\* A variant of eq that compares the accessors' addresses.
eq_by_addr(self, other, m) ==
    [val |-> self.virt = other.virt,
     io |-> read_volatile(self, m).io \o read_volatile(other, m).io]

eq(self, other, m) ==
    [val |-> read_volatile(self, m).val = read_volatile(other, m).val,
     io |-> read_volatile(self, m).io \o read_volatile(other, m).io]

Ordering(x, y) == IF x < y THEN "Less" ELSE IF x = y THEN "Equal" ELSE "Greater"

cmp(self, other, m) ==
    [val |-> Ordering(read_volatile(self, m).val, read_volatile(other, m).val),
     io |-> read_volatile(self, m).io \o read_volatile(other, m).io]

drop(self) ==
    LET bytes == SizeOfT
    IN <<UnmapCall(self.virt, bytes)>>

\* ----------------------------------------------------------------- state
\* last: the operation the program performed last, with what it was given,
\* what it returned, the volatile accesses it made (io) and the mapper
\* calls it made (calls).  pre is the value the location held before the
\* operation; mapped is the mapper's record of the accessor operated on.
NoLast ==
    [op |-> "init", acc |-> "none", other |-> "none", phys |-> 0, val |-> 0,
     fn |-> "none", ret |-> "none", err |-> NoErr, pre |-> 0, res |-> "none",
     io |-> <<>>, calls |-> <<>>, mapped |-> NoMapper]

\* prev: for a read, the construction, write or update that came right
\* before it, with what it was given and what it returned.
NoPrev == [op |-> "init", acc |-> "none", val |-> 0, fn |-> "none", ret |-> "none", pre |-> 0]

Hist(l) ==
    IF l.op \in {"new", "try_new", "write", "update"}
    THEN [op |-> l.op, acc |-> l.acc, val |-> l.val, fn |-> l.fn, ret |-> l.ret,
          pre |-> l.pre]
    ELSE NoPrev

Init ==
    /\ acc = [a \in Accs |-> NoAcc]
    /\ mem \in [AlignedBases -> Values]
    /\ nmap = 0
    /\ nunmap = 0
    /\ last = NoLast
    /\ prev = NoPrev

CountCalls(calls, f) == Cardinality({i \in 1 .. Len(calls) : calls[i].fn = f})

Construct(a, op, r, phys_base) ==
    /\ acc' = [acc EXCEPT ![a] = r.self]
    /\ nmap' = nmap + CountCalls(r.calls, "map")
    /\ nunmap' = nunmap + CountCalls(r.calls, "unmap")
    /\ prev' = NoPrev
    /\ UNCHANGED mem

New(a) ==
    \E phys_base \in PhysBases, marker \in Markers, vret \in VirtAddrs :
        LET r == new(phys_base, marker, vret)
        IN /\ ~acc[a].live
           /\ r.ret = "ok" => (nmap < MaxMaps /\ vret \in MapChoices(phys_base))
           /\ r.ret # "ok" => vret = 1
           /\ Construct(a, "new", r, phys_base)
           /\ last' = [NoLast EXCEPT !.op = "new", !.acc = a, !.phys = phys_base,
                          !.ret = r.ret, !.calls = r.calls,
                          !.pre = IF phys_base \in AlignedBases THEN mem[phys_base] ELSE 0,
                          !.mapped = r.self.mapper]

TryNew(a) ==
    \E phys_base \in PhysBases, marker \in Markers, vret \in VirtAddrs :
        LET r == try_new(phys_base, marker, vret)
        IN /\ ~acc[a].live
           /\ r.ret = "Ok" => (nmap < MaxMaps /\ vret \in MapChoices(phys_base))
           /\ r.ret # "Ok" => vret = 1
           /\ Construct(a, "try_new", r, phys_base)
           /\ last' = [NoLast EXCEPT !.op = "try_new", !.acc = a, !.phys = phys_base,
                          !.ret = r.ret, !.err = r.err, !.calls = r.calls,
                          !.pre = IF phys_base \in AlignedBases THEN mem[phys_base] ELSE 0,
                          !.mapped = r.self.mapper]

Panicked(op, a) ==
    /\ last' = [NoLast EXCEPT !.op = op, !.acc = a, !.ret = "panic",
                   !.mapped = acc[a].mapper]
    /\ prev' = IF op = "read" THEN Hist(last) ELSE NoPrev
    /\ UNCHANGED <<acc, mem, nmap, nunmap>>

Read(a) ==
    /\ acc[a].live
    /\ ReadGuard(acc[a])
    /\ \E oc \in AccessOutcomes(acc[a].virt) :
          IF oc = "panic" THEN Panicked("read", a)
          ELSE LET r == read_volatile(acc[a], mem)
               IN /\ last' = [NoLast EXCEPT !.op = "read", !.acc = a, !.ret = "ok",
                                 !.val = r.val, !.io = r.io,
                                 !.mapped = acc[a].mapper]
                  /\ prev' = Hist(last)
                  /\ UNCHANGED <<acc, mem, nmap, nunmap>>

Write(a) ==
    /\ acc[a].live
    /\ WriteGuard(acc[a])
    /\ \E v \in Values, oc \in AccessOutcomes(acc[a].virt) :
          IF oc = "panic" THEN Panicked("write", a)
          ELSE LET r == write_volatile(acc[a], mem, v)
               IN /\ mem' = r.mem
                  /\ last' = [NoLast EXCEPT !.op = "write", !.acc = a, !.ret = "ok",
                                 !.val = v, !.io = r.io,
                                 !.mapped = acc[a].mapper]
                  /\ acc' = [acc EXCEPT ![a] = r.self]
                  /\ prev' = NoPrev
                  /\ UNCHANGED <<nmap, nunmap>>

Update(a) ==
    /\ acc[a].live
    /\ UpdateGuard(acc[a])
    /\ \E f \in Fns, oc \in AccessOutcomes(acc[a].virt) :
          IF oc = "panic" THEN Panicked("update", a)
          ELSE LET r == update_volatile(acc[a], mem, f)
               IN /\ mem' = r.mem
                  /\ last' = [NoLast EXCEPT !.op = "update", !.acc = a, !.ret = "ok",
                                 !.fn = f, !.io = r.io,
                                 !.pre = mem[acc[a].mapper.phys],
                                 !.mapped = acc[a].mapper]
                  /\ acc' = [acc EXCEPT ![a] = r.self]
                  /\ prev' = NoPrev
                  /\ UNCHANGED <<nmap, nunmap>>

\* self == other and self.cmp(other): both operands have the same type, so
\* the same marker.
Comparable(a, b) ==
    /\ a # b
    /\ acc[a].live /\ acc[b].live
    /\ acc[a].marker = acc[b].marker
    /\ ReadGuard(acc[a])

Eq(a, b) ==
    /\ Comparable(a, b)
    /\ \E oc \in AccessOutcomes(acc[a].virt) \cup AccessOutcomes(acc[b].virt) :
          IF oc = "panic" THEN Panicked("eq", a)
          ELSE LET r == eq(acc[a], acc[b], mem)
               IN /\ last' = [NoLast EXCEPT !.op = "eq", !.acc = a, !.other = b,
                                 !.ret = "ok", !.io = r.io,
                                 !.res = IF r.val THEN "true" ELSE "false",
                                 !.mapped = acc[a].mapper]
                  /\ prev' = NoPrev
                  /\ UNCHANGED <<acc, mem, nmap, nunmap>>

Cmp(a, b) ==
    /\ Comparable(a, b)
    /\ \E oc \in AccessOutcomes(acc[a].virt) \cup AccessOutcomes(acc[b].virt) :
          IF oc = "panic" THEN Panicked("cmp", a)
          ELSE LET r == cmp(acc[a], acc[b], mem)
               IN /\ last' = [NoLast EXCEPT !.op = "cmp", !.acc = a, !.other = b,
                                 !.ret = "ok", !.io = r.io, !.res = r.val,
                                 !.mapped = acc[a].mapper]
                  /\ prev' = NoPrev
                  /\ UNCHANGED <<acc, mem, nmap, nunmap>>

Drop(a) ==
    /\ acc[a].live
    /\ LET calls == drop(acc[a])
       IN /\ acc' = [acc EXCEPT ![a] = NoAcc]
          /\ nmap' = nmap + CountCalls(calls, "map")
          /\ nunmap' = nunmap + CountCalls(calls, "unmap")
          /\ last' = [NoLast EXCEPT !.op = "drop", !.acc = a, !.ret = "ok",
                         !.calls = calls, !.mapped = acc[a].mapper]
          /\ prev' = NoPrev
          /\ UNCHANGED mem

Next ==
    \E a \in Accs :
        \/ New(a)
        \/ TryNew(a)
        \/ Read(a)
        \/ Write(a)
        \/ Update(a)
        \/ Drop(a)
        \/ \E b \in Accs : Eq(a, b)
        \/ \E b \in Accs : Cmp(a, b)

Spec == Init /\ [][Next]_vars

\* ---------------------------------------------------------------- claims
Misaligned(p) == p % AlignOfT # 0
Live == {a \in Accs : acc[a].live}
PhysOf(a) == acc[a].mapper.phys

\* C1: destroying an accessor makes exactly one unmap call, and that call
\* carries the physical address and the byte length given to the map call
\* that created the accessor.
C1_UnmapMatchesMap ==
    last.op = "drop" =>
        last.calls = <<UnmapCall(last.mapped.phys, last.mapped.bytes)>>

\* C2: the virtual address stored in every live accessor is a multiple of
\* T's alignment, whatever non-zero address the mapper returned.
C2_VirtAligned ==
    \A a \in Accs : acc[a].live => acc[a].virt % AlignOfT = 0

\* C3: at a misaligned physical address try_new returns NotAligned with
\* alignment = align_of::<T>() and address = the address given, and new
\* panics, neither leaving an accessor; at an aligned address try_new
\* returns Ok with an accessor of that address.
C3_AlignmentError ==
    /\ (last.op = "try_new" /\ Misaligned(last.phys)) =>
           /\ last.ret = "Err"
           /\ last.err = [alignment |-> AlignOfT, address |-> last.phys]
           /\ ~acc[last.acc].live
    /\ (last.op = "new" /\ Misaligned(last.phys)) =>
           /\ last.ret = "panic"
           /\ ~acc[last.acc].live
    /\ (last.op = "try_new" /\ ~Misaligned(last.phys)) =>
           /\ last.ret = "Ok"
           /\ last.err = NoErr
           /\ acc[last.acc].live
           /\ PhysOf(last.acc) = last.phys

C3_Witness ==
    /\ last.op = "try_new"
    /\ last.ret = "Err"
    /\ last.phys = 1
    /\ last.err.address = 1

\* C4: after write(v) the mapped location holds v, and a read through the
\* same accessor that comes right after the write returns v.
C4_WriteThenRead ==
    /\ (last.op = "write" /\ last.ret = "ok") =>
           mem[PhysOf(last.acc)] = last.val
    /\ (last.op = "read" /\ last.ret = "ok" /\ prev.op = "write"
            /\ prev.ret = "ok" /\ prev.acc = last.acc) =>
           last.val = prev.val

C4_Witness ==
    /\ last.op = "read" /\ last.ret = "ok"
    /\ prev.op = "write" /\ prev.ret = "ok" /\ prev.acc = last.acc
    /\ prev.val = 1 /\ last.val = 1
    /\ acc[last.acc].marker = "ReadWrite"

\* C5: update(f) makes one read and then one write of f applied to the
\* value read, leaves memory as write(f(read())) would, and a read right
\* after it returns f(v0), v0 being the value held before the update.
C5_UpdateIsReadModifyWrite ==
    [][/\ (last'.op = "update" /\ last'.ret = "ok") =>
              LET a == last'.acc
                  p == PhysOf(a)
                  v0 == mem[p]
              IN /\ mem' = [mem EXCEPT ![p] = Apply(last'.fn, v0)]
                 /\ last'.pre = v0
                 /\ last'.io = <<IoRead(acc[a].virt, v0),
                                 IoWrite(acc[a].virt, Apply(last'.fn, v0))>>
       /\ (last'.op = "read" /\ last'.ret = "ok" /\ prev'.op = "update"
               /\ prev'.ret = "ok" /\ prev'.acc = last'.acc) =>
              last'.val = Apply(prev'.fn, prev'.pre)]_vars

C5_Witness ==
    /\ last.op = "read" /\ last.ret = "ok"
    /\ prev.op = "update" /\ prev.ret = "ok" /\ prev.acc = last.acc
    /\ prev.fn = "dbl" /\ prev.pre = 1 /\ last.val = 2

\* C6: construction leaves the contents of memory unchanged, and a read
\* right after a successful construction returns the value the location at
\* the given physical address held before the mapping was made.
C6_ConstructThenRead ==
    [][/\ (last'.op \in {"new", "try_new"}) => mem' = mem
       /\ (last'.op = "read" /\ last'.ret = "ok" /\ prev'.op \in {"new", "try_new"}
               /\ prev'.ret \in {"ok", "Ok"} /\ prev'.acc = last'.acc) =>
              last'.val = prev'.pre]_vars

C6_Witness ==
    /\ last.op = "read" /\ last.ret = "ok"
    /\ prev.op = "new" /\ prev.ret = "ok" /\ prev.acc = last.acc
    /\ prev.pre = 2 /\ last.val = 2
    /\ PhysOf(last.acc) = 0 /\ mem[2] # 2

\* C7: read is performed only through ReadOnly and ReadWrite accessors,
\* write only through WriteOnly and ReadWrite ones, update only through
\* ReadWrite ones; no volatile read is made through a WriteOnly accessor and
\* no volatile write through a ReadOnly one; ReadWrite has both
\* capabilities and each of the other two exactly one.
C7_CapabilityGating ==
    /\ last.op \in {"read", "eq", "cmp"} =>
           acc[last.acc].marker \in {"ReadOnly", "ReadWrite"}
    /\ last.op = "write" => acc[last.acc].marker \in {"WriteOnly", "ReadWrite"}
    /\ last.op = "update" => acc[last.acc].marker = "ReadWrite"
    /\ \A i \in 1 .. Len(last.io) :
           /\ last.io[i].kind = "read" => acc[last.acc].marker # "WriteOnly"
           /\ last.io[i].kind = "write" => acc[last.acc].marker # "ReadOnly"
    /\ "ReadWrite" \in Readable /\ "ReadWrite" \in Writable
    /\ "ReadOnly" \in Readable /\ "ReadOnly" \notin Writable
    /\ "WriteOnly" \in Writable /\ "WriteOnly" \notin Readable

C7_Witness ==
    /\ last.op = "write" /\ last.ret = "ok"
    /\ acc[last.acc].marker = "WriteOnly"
    /\ \E b \in Accs : acc[b].live /\ acc[b].marker = "ReadOnly"

\* C8: self == other is true exactly when the values currently read through
\* the two accessors are equal, and the ordering of two accessors is the
\* ordering of those values; the addresses play no part.
C8_CompareByValue ==
    /\ (last.op = "eq" /\ last.ret = "ok") =>
           (last.res = "true") = (mem[PhysOf(last.acc)] = mem[PhysOf(last.other)])
    /\ (last.op = "cmp" /\ last.ret = "ok") =>
           last.res = Ordering(mem[PhysOf(last.acc)], mem[PhysOf(last.other)])

C8_Witness ==
    /\ last.op = "eq" /\ last.ret = "ok" /\ last.res = "true"
    /\ PhysOf(last.acc) # PhysOf(last.other)
    /\ acc[last.acc].virt # acc[last.other].virt

\* C9: a construction at a misaligned address calls neither map nor unmap;
\* a destruction makes its one unmap call for an accessor that a map call
\* created; the unmap calls never outnumber the map calls, the difference
\* being the accessors that are live.
C9_MapUnmapPairing ==
    /\ (last.op \in {"new", "try_new"} /\ Misaligned(last.phys)) =>
           last.calls = <<>>
    /\ last.op = "drop" =>
           /\ Len(last.calls) = 1
           /\ last.calls[1].fn = "unmap"
           /\ last.mapped.bytes = SizeOfT
           /\ last.mapped.virt # 0
    /\ nunmap <= nmap
    /\ nmap - nunmap = Cardinality(Live)

C9_Witness ==
    /\ last.op = "try_new" /\ last.ret = "Err"
    /\ nmap = 2 /\ nunmap = 1

\* C10: read, write and update leave the accessor as it was, its stored
\* virtual address being the one map returned at construction, and make no
\* mapper call; read also leaves memory unchanged.
C10_AccessFrame ==
    [][last'.op \in {"read", "write", "update"} =>
           /\ acc' = acc
           /\ acc'[last'.acc].virt = acc[last'.acc].mapper.virt
           /\ nmap' = nmap /\ nunmap' = nunmap
           /\ last'.calls = <<>>
           /\ (last'.op = "read" => mem' = mem)]_vars

C10_Witness ==
    /\ last.op = "update" /\ last.ret = "ok"
    /\ acc[last.acc].virt # PhysOf(last.acc)
    /\ acc[last.acc].virt = acc[last.acc].mapper.virt
    /\ mem[PhysOf(last.acc)] # last.pre

====
